---- MODULE Spec2Model ----
(***************************************************************************)
(* A model of the inner-product argument of bls_bulletproofs               *)
(* (src/src/inner_product_proof.rs): the prover `create`, the verifier's   *)
(* scalar derivation `verification_scalars`, the single-proof verifier     *)
(* `verify`, and the byte codec `to_bytes` / `from_bytes`.                 *)
(*                                                                         *)
(* The scalar field is Z_ScalarOrder for a small prime, and G1, a cyclic   *)
(* group of that prime order, is written additively as Z_ScalarOrder (a    *)
(* point is its discrete logarithm, the identity is 0).  The Fiat-Shamir   *)
(* transcript is the list of the operations applied to it, and its         *)
(* challenges are drawn from a lazily sampled random oracle: the same      *)
(* transcript always squeezes the same challenge, a new one squeezes any   *)
(* scalar.  Vectors are 1-indexed sequences: the code's v[i] is v[i + 1].  *)
(***************************************************************************)
EXTENDS Integers, Sequences, FiniteSets, TLC

VARIABLES
    inp,        \* the caller's arguments to create: [Q, g, h, G, H, a, b]
    oracle,     \* the random oracle sampled so far: transcript -> challenge
    created,    \* what create returned (NoCall before the call)
    verified,   \* what verify returned on create's proof
    buf,        \* the bytes to_bytes returned, or the slice given to from_bytes
    parsed,     \* what from_bytes returned
    pverified,  \* what verify returned on the proof parsed back
    twisted,    \* what create returned on the pre-twisted bases
    tampered,   \* create's proof with one component replaced
    tverified,  \* what verify returned on the tampered proof
    forged,     \* a proof that did not come from create
    vn,         \* the length n given with the forged proof
    vscalars,   \* what verification_scalars returned on the forged proof
    fverified,  \* what verify returned on the forged proof
    product     \* what inner_product returned on the caller's a and b

vars == <<inp, oracle, created, verified, buf, parsed, pverified, twisted,
          tampered, tverified, forged, vn, vscalars, fverified, product>>

-----------------------------------------------------------------------------
(* Bounds of the model. *)

\* Vectors have length 2^k for k <= MaxLgN.
MaxLgN == 2
\* The tampering experiment is run on vectors of length 2^k for
\* k <= TamperMaxLgN.
TamperMaxLgN == 1

-----------------------------------------------------------------------------
(* The scalar field and the group G1 (blstrs::Scalar, blstrs::G1Projective). *)

ScalarOrder == 7

Scalars == 0 .. (ScalarOrder - 1)
Points == 0 .. (ScalarOrder - 1)
Identity == 0

SAdd(x, y) == (x + y) % ScalarOrder
SMul(x, y) == (x * y) % ScalarOrder
SNeg(x) == (ScalarOrder - x) % ScalarOrder

\* Scalar::invert: an Option, written as a sequence: <<>> is None (for
\* zero), <<y>> is Some(y).
invert(x) ==
    IF x = 0 THEN <<>>
    ELSE <<CHOOSE y \in Scalars : (x * y) % ScalarOrder = 1>>

PAdd(p, q) == (p + q) % ScalarOrder
\* point * scalar
PMul(p, s) == (p * s) % ScalarOrder

RECURSIVE Pow2(_)
Pow2(k) == IF k = 0 THEN 1 ELSE 2 * Pow2(k - 1)

\* usize::is_power_of_two: false for 0.  Lengths stay below 2^31.
is_power_of_two(n) == \E k \in 0 .. 30 : n = Pow2(k)

\* sum of P * s over the zip of two iterators (the shorter one ends it)
RECURSIVE msm(_, _)
msm(scalars, points) ==
    IF scalars = <<>> \/ points = <<>> THEN Identity
    ELSE PAdd(PMul(Head(points), Head(scalars)), msm(Tail(scalars), Tail(points)))

\* a.iter().zip(b).map(|(x, y)| x * y) on scalars
ZipMul(a, b) ==
    LET m == IF Len(a) < Len(b) THEN Len(a) ELSE Len(b)
    IN  [i \in 1 .. m |-> SMul(a[i], b[i])]

-----------------------------------------------------------------------------
(* inner_product *)

RECURSIVE SumMul(_, _, _)
SumMul(a, b, i) ==
    IF i = 0 THEN 0 ELSE SAdd(SumMul(a, b, i - 1), SMul(a[i], b[i]))

\* (mutant) The sum runs over the zip of a and b, the shorter one ending it.
inner_product_zip(a, b) ==
    [panic |-> FALSE,
     out |-> SumMul(a, b, IF Len(a) < Len(b) THEN Len(a) ELSE Len(b))]

\* [panic |-> TRUE] is the panic on unequal lengths; out is the result.
inner_product(a, b) ==
    IF Len(a) # Len(b) THEN [panic |-> TRUE, out |-> 0]
    ELSE [panic |-> FALSE, out |-> SumMul(a, b, Len(a))]

-----------------------------------------------------------------------------
(* The transcript (crate::transcript::TranscriptProtocol over merlin).     *)

Transcript0 == <<>>

innerproduct_domain_sep(tr, n) == Append(tr, <<"dom-sep", "innerproduct", n>>)

append_point(tr, label, point) == Append(tr, <<"append", label, point>>)

validate_and_append_point(tr, label, point) ==
    IF point = Identity
    THEN [err |-> "VerificationError", tr |-> tr]
    ELSE [err |-> "none", tr |-> append_point(tr, label, point)]

\* The challenge squeezed from tr: the oracle's answer where it has been
\* asked before, the fresh draw otherwise.
challenge_scalar(tr, label, ro, fresh) ==
    LET t == Append(tr, <<"challenge", label, 0>>)
    IN  [u |-> IF t \in DOMAIN ro THEN ro[t] ELSE fresh, tr |-> t]

\* The oracle after the queries qs (a sequence of <<transcript, answer>>).
Sampled(ro, qs) ==
    LET new == {qs[i][1] : i \in 1 .. Len(qs)}
    IN  [t \in (DOMAIN ro) \cup new |->
            IF t \in DOMAIN ro THEN ro[t]
            ELSE qs[CHOOSE i \in 1 .. Len(qs) : qs[i][1] = t][2]]

-----------------------------------------------------------------------------
(* InnerProductProof::create *)

\* The halves of a slice: split_at_mut(n).
Left(v, n) == SubSeq(v, 1, n)
Right(v, n) == SubSeq(v, n + 1, Len(v))

\* The prover's working state between rounds: the slices a, b, G, H of the
\* current length n, the proof's L_vec and R_vec so far, the transcript tr,
\* the oracle queries made (qs) and the error raised, if any.
ProverState(n, a, b, G, H, L_vec, R_vec, tr, qs, err) ==
    [n |-> n, a |-> a, b |-> b, G |-> G, H |-> H,
     L_vec |-> L_vec, R_vec |-> R_vec, tr |-> tr, qs |-> qs, err |-> err]

\* (mutant) L scales a_L by the factors of its own half, G_factors[0..n].
FirstL_sameHalf(n, a_L, b_R, c_L, G_R, H_L, Q, G_factors, H_factors) ==
    msm(ZipMul(a_L, SubSeq(G_factors, 1, n))
            \o ZipMul(b_R, SubSeq(H_factors, 1, n)) \o <<c_L>>,
        G_R \o H_L \o <<Q>>)

\* L and R of the first round (lines 92-104 and 106-118): the factors of
\* the other half scale a, those of the same half scale b.
FirstL(n, a_L, b_R, c_L, G_R, H_L, Q, G_factors, H_factors) ==
    msm(ZipMul(a_L, SubSeq(G_factors, n + 1, 2 * n))
            \o ZipMul(b_R, SubSeq(H_factors, 1, n)) \o <<c_L>>,
        G_R \o H_L \o <<Q>>)

FirstR(n, a_R, b_L, c_R, G_L, H_R, Q, G_factors, H_factors) ==
    msm(ZipMul(a_R, SubSeq(G_factors, 1, n))
            \o ZipMul(b_L, SubSeq(H_factors, n + 1, 2 * n)) \o <<c_R>>,
        G_L \o H_R \o <<Q>>)

\* The first round (lines 82-140): the factors are folded into L, R and into
\* the folded G and H.
FirstRound(st, Q, G_factors, H_factors, ro, fresh) ==
    LET n == st.n \div 2
        a_L == Left(st.a, n)
        a_R == Right(st.a, n)
        b_L == Left(st.b, n)
        b_R == Right(st.b, n)
        G_L == Left(st.G, n)
        G_R == Right(st.G, n)
        H_L == Left(st.H, n)
        H_R == Right(st.H, n)
        c_L == inner_product(a_L, b_R).out
        c_R == inner_product(a_R, b_L).out
        L == FirstL(n, a_L, b_R, c_L, G_R, H_L, Q, G_factors, H_factors)
        R == FirstR(n, a_R, b_L, c_R, G_L, H_R, Q, G_factors, H_factors)
        tr2 == append_point(append_point(st.tr, "L", L), "R", R)
        c == challenge_scalar(tr2, "u", ro, fresh)
        u == c.u
        u_inv == invert(u)
        qs == Append(st.qs, <<c.tr, u>>)
    IN  IF u_inv = <<>>
        THEN ProverState(n, st.a, st.b, st.G, st.H, Append(st.L_vec, L),
                         Append(st.R_vec, R), c.tr, qs, "FormatError")
        ELSE ProverState(n,
                [i \in 1 .. n |-> SAdd(SMul(a_L[i], u), SMul(a_R[i], u_inv[1]))],
                [i \in 1 .. n |-> SAdd(SMul(b_L[i], u_inv[1]), SMul(b_R[i], u))],
                [i \in 1 .. n |->
                    PAdd(PMul(G_L[i], SMul(u_inv[1], G_factors[i])),
                         PMul(G_R[i], SMul(u, G_factors[n + i])))],
                [i \in 1 .. n |->
                    PAdd(PMul(H_L[i], SMul(u, H_factors[i])),
                         PMul(H_R[i], SMul(u_inv[1], H_factors[n + i])))],
                Append(st.L_vec, L), Append(st.R_vec, R), c.tr, qs, "none")

\* (mutant) the bases chained in the wrong order: a_L meets H_L and b_R
\* meets G_R.
PlainL_swappedBases(a_L, b_R, c_L, G_R, H_L, Q) ==
    msm(a_L \o b_R \o <<c_L>>, H_L \o G_R \o <<Q>>)

\* L and R of a later round (lines 152-158 and 160-166).
PlainL(a_L, b_R, c_L, G_R, H_L, Q) ==
    msm(a_L \o b_R \o <<c_L>>, G_R \o H_L \o <<Q>>)

PlainR(a_R, b_L, c_R, G_L, H_R, Q) ==
    msm(a_R \o b_L \o <<c_R>>, G_L \o H_R \o <<Q>>)

\* A later round (the body of the while loop, lines 143-187).
PlainRound(st, Q, ro, fresh) ==
    LET n == st.n \div 2
        a_L == Left(st.a, n)
        a_R == Right(st.a, n)
        b_L == Left(st.b, n)
        b_R == Right(st.b, n)
        G_L == Left(st.G, n)
        G_R == Right(st.G, n)
        H_L == Left(st.H, n)
        H_R == Right(st.H, n)
        c_L == inner_product(a_L, b_R).out
        c_R == inner_product(a_R, b_L).out
        L == PlainL(a_L, b_R, c_L, G_R, H_L, Q)
        R == PlainR(a_R, b_L, c_R, G_L, H_R, Q)
        tr2 == append_point(append_point(st.tr, "L", L), "R", R)
        c == challenge_scalar(tr2, "u", ro, fresh)
        u == c.u
        u_inv == invert(u)
        qs == Append(st.qs, <<c.tr, u>>)
    IN  IF u_inv = <<>>
        THEN ProverState(n, st.a, st.b, st.G, st.H, Append(st.L_vec, L),
                         Append(st.R_vec, R), c.tr, qs, "FormatError")
        ELSE ProverState(n,
                [i \in 1 .. n |-> SAdd(SMul(a_L[i], u), SMul(a_R[i], u_inv[1]))],
                [i \in 1 .. n |-> SAdd(SMul(b_L[i], u_inv[1]), SMul(b_R[i], u))],
                [i \in 1 .. n |-> PAdd(PMul(G_L[i], u_inv[1]), PMul(G_R[i], u))],
                [i \in 1 .. n |-> PAdd(PMul(H_L[i], u), PMul(H_R[i], u_inv[1]))],
                Append(st.L_vec, L), Append(st.R_vec, R), c.tr, qs, "none")

\* while n != 1 { ... }: round j draws fresh[j] when the oracle is new there.
RECURSIVE WhileLoop(_, _, _, _, _)
WhileLoop(st, Q, ro, fresh, j) ==
    IF st.err # "none" \/ st.n = 1 THEN st
    ELSE WhileLoop(PlainRound(st, Q, ro, fresh[j]), Q, ro, fresh, j + 1)

\* What a call returns: res is "Ok", an error kind or "panic"; proof is the
\* proof returned with Ok; tr is the caller's transcript after the call and
\* qs the oracle queries the call made.
NoProof == [L_vec |-> <<>>, R_vec |-> <<>>, a |-> 0, b |-> 0]
Proof(L_vec, R_vec, a, b) == [L_vec |-> L_vec, R_vec |-> R_vec, a |-> a, b |-> b]
Returned(res, proof, tr, qs) == [res |-> res, proof |-> proof, tr |-> tr, qs |-> qs]
NoCall == Returned("none", NoProof, <<>>, <<>>)

create(transcript, Q, G_factors, H_factors, G_vec, H_vec, a_vec, b_vec, ro, fresh) ==
    LET n == Len(G_vec)
    IN  IF \/ Len(H_vec) # n \/ Len(a_vec) # n \/ Len(b_vec) # n
           \/ Len(G_factors) # n \/ Len(H_factors) # n
           \/ ~is_power_of_two(n)
        THEN Returned("panic", NoProof, transcript, <<>>)
        ELSE
        LET tr0 == innerproduct_domain_sep(transcript, n)
            st0 == ProverState(n, a_vec, b_vec, G_vec, H_vec, <<>>, <<>>, tr0, <<>>, "none")
            st1 == IF n # 1 THEN FirstRound(st0, Q, G_factors, H_factors, ro, fresh[1])
                   ELSE st0
            st == WhileLoop(st1, Q, ro, fresh, 2)
        IN  IF st.err # "none"
            THEN Returned(st.err, NoProof, st.tr, st.qs)
            ELSE Returned("Ok", Proof(st.L_vec, st.R_vec, st.a[1], st.b[1]), st.tr, st.qs)

-----------------------------------------------------------------------------
(* InnerProductProof::verification_scalars *)

Min(x, y) == IF x < y THEN x ELSE y

\* (mutant) The replay appends R before L.
RECURSIVE ReplayLoop_RbeforeL(_, _, _, _, _)
ReplayLoop_RbeforeL(proof, j, acc, ro, fresh) ==
    IF j > Min(Len(proof.L_vec), Len(proof.R_vec)) THEN acc
    ELSE
    LET vr == validate_and_append_point(acc.tr, "R", proof.R_vec[j])
        vl == validate_and_append_point(vr.tr, "L", proof.L_vec[j])
        c == challenge_scalar(vl.tr, "u", ro, fresh[j])
    IN  IF vr.err # "none" THEN [acc EXCEPT !.err = vr.err]
        ELSE IF vl.err # "none" THEN [acc EXCEPT !.err = vl.err, !.tr = vr.tr]
        ELSE ReplayLoop_RbeforeL(proof, j + 1,
                [challenges |-> Append(acc.challenges, c.u), tr |-> c.tr,
                 qs |-> Append(acc.qs, <<c.tr, c.u>>), err |-> "none"],
                ro, fresh)

\* (mutant) The replay appends L and R as the prover does, unvalidated.
RECURSIVE ReplayLoop_unvalidated(_, _, _, _, _)
ReplayLoop_unvalidated(proof, j, acc, ro, fresh) ==
    IF j > Min(Len(proof.L_vec), Len(proof.R_vec)) THEN acc
    ELSE
    LET tl == append_point(acc.tr, "L", proof.L_vec[j])
        trr == append_point(tl, "R", proof.R_vec[j])
        c == challenge_scalar(trr, "u", ro, fresh[j])
    IN  ReplayLoop_unvalidated(proof, j + 1,
                [challenges |-> Append(acc.challenges, c.u), tr |-> c.tr,
                 qs |-> Append(acc.qs, <<c.tr, c.u>>), err |-> "none"],
                ro, fresh)

\* The replay loop (lines 221-225) from pair j on: each L and R is validated
\* and appended, then a challenge is squeezed.  acc holds the challenges so
\* far, the transcript, the queries and the error.
RECURSIVE ReplayLoop(_, _, _, _, _)
ReplayLoop(proof, j, acc, ro, fresh) ==
    IF j > Min(Len(proof.L_vec), Len(proof.R_vec)) THEN acc
    ELSE
    LET vl == validate_and_append_point(acc.tr, "L", proof.L_vec[j])
        vr == validate_and_append_point(vl.tr, "R", proof.R_vec[j])
        c == challenge_scalar(vr.tr, "u", ro, fresh[j])
    IN  IF vl.err # "none" THEN [acc EXCEPT !.err = vl.err]
        ELSE IF vr.err # "none" THEN [acc EXCEPT !.err = vr.err, !.tr = vl.tr]
        ELSE ReplayLoop(proof, j + 1,
                [challenges |-> Append(acc.challenges, c.u), tr |-> c.tr,
                 qs |-> Append(acc.qs, <<c.tr, c.u>>), err |-> "none"],
                ro, fresh)

\* u32::leading_zeros
RECURSIVE BitLength(_)
BitLength(i) == IF i = 0 THEN 0 ELSE 1 + BitLength(i \div 2)
leading_zeros(i) == 32 - BitLength(i)

\* fold(Scalar::one(), |product, x| product * x)
RECURSIVE Product(_)
\* (mutant) The fold returns its initial value.
Product_initial(v) == 1

Product(v) == IF v = <<>> THEN 1 ELSE SMul(Product(SubSeq(v, 1, Len(v) - 1)), v[Len(v)])

RECURSIVE PushS(_, _, _, _, _)
\* (mutant) The squared challenges are indexed in creation order.
PushS_sameIndex(s, i, n, lg_n, challenges_sq) ==
    IF i >= n THEN s
    ELSE LET lg_i == 32 - 1 - leading_zeros(i)
             k == Pow2(lg_i)
             u_lg_i_sq == challenges_sq[lg_i + 1]
         IN  PushS(Append(s, SMul(s[(i - k) + 1], u_lg_i_sq)), i + 1, n, lg_n,
                   challenges_sq)

\* Step 4 (lines 253-262): s after the pushes for i, i + 1, .., n - 1.
PushS(s, i, n, lg_n, challenges_sq) ==
    IF i >= n THEN s
    ELSE LET lg_i == 32 - 1 - leading_zeros(i)
             k == Pow2(lg_i)
             u_lg_i_sq == challenges_sq[((lg_n - 1) - lg_i) + 1]
         IN  PushS(Append(s, SMul(s[(i - k) + 1], u_lg_i_sq)), i + 1, n, lg_n,
                   challenges_sq)

\* What verification_scalars returns: with res = "Ok" the three vectors.
Scalars3(res, u_sq, u_inv_sq, s, challenges, tr, qs) ==
    [res |-> res, u_sq |-> u_sq, u_inv_sq |-> u_inv_sq, s |-> s,
     challenges |-> challenges, tr |-> tr, qs |-> qs]

\* (mutant) Only an n above 2^lg_n is a mismatch.
SizeMismatch_above(n, lg_n) == n > Pow2(lg_n)

\* n != (1 << lg_n)  (line 212)
SizeMismatch(n, lg_n) == n # Pow2(lg_n)

verification_scalars(proof, n, transcript, ro, fresh) ==
    LET lg_n == Len(proof.L_vec)
    IN  IF lg_n >= 32
        THEN Scalars3("VerificationError", <<>>, <<>>, <<>>, <<>>, transcript, <<>>)
        ELSE IF SizeMismatch(n, lg_n)
        THEN Scalars3("VerificationError", <<>>, <<>>, <<>>, <<>>, transcript, <<>>)
        ELSE
        LET tr0 == innerproduct_domain_sep(transcript, n)
            rp == ReplayLoop(proof, 1,
                     [challenges |-> <<>>, tr |-> tr0, qs |-> <<>>, err |-> "none"],
                     ro, fresh)
            challenges == rp.challenges
        IN  IF rp.err # "none"
            THEN Scalars3(rp.err, <<>>, <<>>, <<>>, challenges, rp.tr, rp.qs)
            ELSE IF \E i \in 1 .. Len(challenges) : invert(challenges[i]) = <<>>
            THEN Scalars3("FormatError", <<>>, <<>>, <<>>, challenges, rp.tr, rp.qs)
            ELSE
            LET challenges_inv == [i \in 1 .. Len(challenges) |-> invert(challenges[i])[1]]
                allinv == Product(challenges_inv)
                challenges_sq ==
                    [i \in 1 .. lg_n |-> SMul(challenges[i], challenges[i])]
                challenges_inv_sq ==
                    [i \in 1 .. lg_n |-> SMul(challenges_inv[i], challenges_inv[i])]
                s == PushS(<<allinv>>, 1, n, lg_n, challenges_sq)
            IN  Scalars3("Ok", challenges_sq, challenges_inv_sq, s, challenges,
                         rp.tr, rp.qs)

-----------------------------------------------------------------------------
(* InnerProductProof::verify *)

\* (mutant) s is not reversed for the H branch.
Reverse_forward(v) == v

\* s.iter().rev()
Reverse(v) == [i \in 1 .. Len(v) |-> v[Len(v) + 1 - i]]
Take(v, m) == SubSeq(v, 1, Min(Len(v), m))

verify(proof, n, transcript, G_factors, H_factors, P, Q, G, H, ro, fresh) ==
    LET vs == verification_scalars(proof, n, transcript, ro, fresh)
    IN  IF vs.res # "Ok" THEN Returned(vs.res, proof, vs.tr, vs.qs)
        ELSE
        LET s == vs.s
            g_times_a_times_s ==
                Take([i \in 1 .. Min(Len(G_factors), Len(s)) |->
                        SMul(SMul(proof.a, s[i]), G_factors[i])], Len(G))
            inv_s == Reverse(s)
            h_times_b_div_s ==
                [i \in 1 .. Min(Len(H_factors), Len(inv_s)) |->
                    SMul(SMul(proof.b, inv_s[i]), H_factors[i])]
            neg_u_sq == [i \in 1 .. Len(vs.u_sq) |-> SNeg(vs.u_sq[i])]
            neg_u_inv_sq == [i \in 1 .. Len(vs.u_inv_sq) |-> SNeg(vs.u_inv_sq[i])]
            scalars == <<SMul(proof.a, proof.b)>> \o g_times_a_times_s
                          \o h_times_b_div_s \o neg_u_sq \o neg_u_inv_sq
            points == <<Q>> \o G \o H \o proof.L_vec \o proof.R_vec
            expect_P == msm(scalars, points)
        IN  IF expect_P = P THEN Returned("Ok", proof, vs.tr, vs.qs)
            ELSE Returned("VerificationError", proof, vs.tr, vs.qs)

-----------------------------------------------------------------------------
(* The codec: serialized_size, to_bytes, from_bytes.                       *)

Bytes == 0 .. 255
Zeros(m) == [i \in 1 .. m |-> 0]

\* G1Projective::to_compressed: 48 bytes, big-endian, the first byte's top
\* bits flagging the compressed form (128) and the point at infinity (64).
to_compressed(point) ==
    IF point = Identity THEN <<192>> \o Zeros(47)
    ELSE <<128>> \o Zeros(46) \o <<point>>

\* G1Projective::from_compressed: an Option (<<>> is None).
from_compressed(bytes) ==
    IF bytes = <<192>> \o Zeros(47) THEN <<Identity>>
    ELSE IF /\ bytes[1] = 128
            /\ SubSeq(bytes, 2, 47) = Zeros(46)
            /\ bytes[48] \in Points \ {Identity}
         THEN <<bytes[48]>>
         ELSE <<>>

\* Scalar::to_bytes_le: 32 bytes, little-endian.
to_bytes_le(x) == <<x>> \o Zeros(31)

\* Scalar::from_bytes_le: an Option, None unless the value is canonical
\* (below the field's order).
from_bytes_le(bytes) ==
    IF bytes[1] < ScalarOrder /\ SubSeq(bytes, 2, 32) = Zeros(31)
    THEN <<bytes[1]>> ELSE <<>>

\* crate::util::read48 and read32 of &slice[pos..]
read48(slice, pos) == SubSeq(slice, pos + 1, pos + 48)
read32(slice, pos) == SubSeq(slice, pos + 1, pos + 32)

\* (mutant) the size the doc comment gives, 32 (2 lg n + 2): points taken
\* for 32 bytes.
serialized_size_32(proof) == (Len(proof.L_vec) * 2) * 32 + 2 * 32

serialized_size(proof) == (Len(proof.L_vec) * 2) * 48 + 2 * 32

RECURSIVE PairsToBytes(_, _, _)
PairsToBytes(L_vec, R_vec, j) ==
    IF j > Min(Len(L_vec), Len(R_vec)) THEN <<>>
    ELSE to_compressed(L_vec[j]) \o to_compressed(R_vec[j])
            \o PairsToBytes(L_vec, R_vec, j + 1)

\* (mutant) b is written before a.
to_bytes_swapped(proof) ==
    PairsToBytes(proof.L_vec, proof.R_vec, 1)
        \o to_bytes_le(proof.b) \o to_bytes_le(proof.a)

to_bytes(proof) ==
    PairsToBytes(proof.L_vec, proof.R_vec, 1)
        \o to_bytes_le(proof.a) \o to_bytes_le(proof.b)

\* What from_bytes returns: res is "Ok" (with the proof) or "FormatError".
Parsed(res, proof) == [res |-> res, proof |-> proof]
NotParsed == Parsed("none", NoProof)

\* The loop of lines 401-411 from pair i (0-based) on; acc is the L_vec and
\* R_vec read so far and the error.
RECURSIVE ReadPairs(_, _, _, _)
ReadPairs(slice, i, lg_n, acc) ==
    IF i >= lg_n THEN acc
    ELSE
    LET pos == 2 * i * 48
        l == from_compressed(read48(slice, pos))
        r == from_compressed(read48(slice, pos + 48))
    IN  IF l = <<>> THEN [acc EXCEPT !.err = "FormatError"]
        ELSE IF r = <<>> THEN [acc EXCEPT !.err = "FormatError"]
        ELSE ReadPairs(slice, i + 1, lg_n,
                [L_vec |-> Append(acc.L_vec, l[1]),
                 R_vec |-> Append(acc.R_vec, r[1]), err |-> "none"])

\* (mutant) Only more than 32 pairs are too many.
TooManyPairs_above(lg_n) == lg_n > 32

\* lg_n >= 32  (line 392)
TooManyPairs(lg_n) == lg_n >= 32

from_bytes(slice) ==
    LET b == Len(slice)
    IN  IF b < 2 * 32 THEN Parsed("FormatError", NoProof)
        ELSE IF (b - 32 * 2) % 48 # 0 THEN Parsed("FormatError", NoProof)
        ELSE
        LET num_points == (b - 32 * 2) \div 48
            lg_n == num_points \div 2
        IN  IF num_points % 2 # 0 THEN Parsed("FormatError", NoProof)
            ELSE IF TooManyPairs(lg_n) THEN Parsed("FormatError", NoProof)
            ELSE
            LET pairs == ReadPairs(slice, 0, lg_n,
                            [L_vec |-> <<>>, R_vec |-> <<>>, err |-> "none"])
                pos == 2 * lg_n * 48
                a == from_bytes_le(read32(slice, pos))
                bb == from_bytes_le(read32(slice, pos + 32))
            IN  IF pairs.err # "none" THEN Parsed("FormatError", NoProof)
                ELSE IF a = <<>> THEN Parsed("FormatError", NoProof)
                ELSE IF bb = <<>> THEN Parsed("FormatError", NoProof)
                ELSE Parsed("Ok", Proof(pairs.L_vec, pairs.R_vec, a[1], bb[1]))


-----------------------------------------------------------------------------
(* The caller: the arguments it draws and the commitment it computes.      *)

\* The vector of length n with entries c + d, c + 2d, ...
VecOf(n, seed) == [i \in 1 .. n |-> (seed[1] + seed[2] * i) % ScalarOrder]
Ones(n) == [i \in 1 .. n |-> 1]

SeedsA == {<<0, 0>>, <<1, 1>>}
SeedsB == {<<0, 0>>, <<2, 3>>}
SeedsG == {<<1, 0>>, <<3, 1>>}
SeedsH == {<<2, 0>>, <<1, 2>>}
SeedsGf == {<<1, 0>>, <<2, 1>>}
SeedsHf == {<<1, 0>>, <<0, 3>>}
BasesQ == {Identity, 3}

InputsOf(Qs, ns, sgs, shs, sGs, sHs, sas, sbs) ==
    {[Q |-> Q, g |-> VecOf(n, sg), h |-> VecOf(n, sh), G |-> VecOf(n, sG),
      H |-> VecOf(n, sH), a |-> VecOf(n, sa), b |-> VecOf(n, sb)] :
        Q \in Qs, n \in ns, sg \in sgs, sh \in shs,
        sG \in sGs, sH \in sHs, sa \in sas, sb \in sbs}

Lengths == {Pow2(k) : k \in 0 .. MaxLgN}
Inputs == InputsOf(BasesQ, Lengths, SeedsGf, SeedsHf, SeedsG, SeedsH, SeedsA, SeedsB)

\* The inputs of the tampering experiment: shorter, the factors fixed, the
\* bases G all the identity or not.
TamperLengths == {Pow2(k) : k \in 0 .. TamperMaxLgN}
TamperInputs ==
    InputsOf(BasesQ, TamperLengths, {<<1, 0>>}, {<<1, 0>>},
             {<<0, 0>>, <<3, 1>>}, {<<1, 2>>}, SeedsA, SeedsB)

\* The inputs of the prover where the verifier is given forged proofs.
FewInputs ==
    InputsOf({3}, Lengths, {<<2, 1>>}, {<<0, 3>>}, {<<3, 1>>}, {<<1, 2>>},
             {<<1, 1>>}, {<<2, 3>>})
NoInputs == [Q |-> 0, g |-> <<>>, h |-> <<>>, G |-> <<>>, H |-> <<>>,
             a |-> <<>>, b |-> <<>>]

\* The arguments of a caller who may break create's contract: every vector
\* of a length of its own, 0 included.
AnyLengths == {0, 1, 2, 3}
AnyInputs ==
    {[Q |-> 3, g |-> VecOf(ng, <<2, 1>>), h |-> VecOf(nh, <<0, 3>>),
      G |-> VecOf(nG, <<3, 1>>), H |-> VecOf(nH, <<1, 2>>),
      a |-> VecOf(na, <<1, 1>>), b |-> VecOf(nb, <<2, 3>>)] :
        ng \in AnyLengths, nh \in AnyLengths, nG \in AnyLengths,
        nH \in AnyLengths, na \in AnyLengths, nb \in AnyLengths}

\* create's preconditions (its assertions, lines 64-72)
ValidInputs(in) ==
    /\ Len(in.H) = Len(in.G) /\ Len(in.a) = Len(in.G) /\ Len(in.b) = Len(in.G)
    /\ Len(in.g) = Len(in.G) /\ Len(in.h) = Len(in.G)
    /\ is_power_of_two(Len(in.G))

\* P = sum a_i (g_i G_i) + sum b_i (h_i H_i) + <a, b> Q, as the caller of
\* verify computes it (test_helper_create).
Commitment(in) ==
    msm(ZipMul(in.a, in.g) \o ZipMul(in.b, in.h) \o <<inner_product(in.a, in.b).out>>,
        in.G \o in.H \o <<in.Q>>)

\* The bases twisted by the factors: G'_i = g_i G_i.
Twist(factors, bases) == [i \in 1 .. Len(bases) |-> PMul(bases[i], factors[i])]

\* Proofs that did not come from create: of k <= MaxLgN rounds with points
\* among FPoints, and long ones.
FPoints == {Identity, 1}
LongRounds == {6, 32}
Forged ==
    UNION {{Proof(L, R, 1, 2) : L \in [1 .. k -> FPoints], R \in [1 .. k -> FPoints]} :
            k \in 0 .. MaxLgN}
\* Those with at most one identity point.
IdentityCount(proof) ==
    Cardinality({j \in 1 .. Len(proof.L_vec) : proof.L_vec[j] = Identity})
        + Cardinality({j \in 1 .. Len(proof.R_vec) : proof.R_vec[j] = Identity})
ForgedFew == {f \in Forged : IdentityCount(f) <= 1}
ForgedLong == {Proof(Ones(k), Ones(k), 1, 2) : k \in LongRounds}
VLengths == {Pow2(k) : k \in 0 .. MaxLgN} \cup {0, 3, 16}

\* The fresh challenges a call may draw, one per round of k rounds.
Fresh(k) == [1 .. k -> Scalars]
NoFresh(k) == [j \in 1 .. k |-> 0]

\* The rounds a call on vectors of length n, or on a proof, can run.
RoundsOf(n) == IF n > 0 THEN BitLength(n) - 1 ELSE 0
RoundsIn(proof) == IF Len(proof.L_vec) < 32 THEN Len(proof.L_vec) ELSE 0

\* The possible returns of a call Run(fresh) of at most k rounds against the
\* oracle ro: the one return when every challenge it squeezes is already
\* sampled (the fresh draws are then never read), all the draws' returns
\* otherwise.
Calls(Run(_), ro, k) ==
    LET r0 == Run(NoFresh(k))
    IN  IF \A i \in 1 .. Len(r0.qs) : r0.qs[i][1] \in DOMAIN ro
        THEN {r0}
        ELSE {Run(fresh) : fresh \in Fresh(k)}

\* The byte slices a third party makes of a serialized proof b: cut short,
\* extended, a point dropped, added or zeroed, one byte overwritten, the
\* pairs replaced by 31 or 32 pairs.
CutLengths == {0, 1, 32, 63}
BytePositions(b) ==
    {1, 2, 48, 49, Len(b) - 63, Len(b) - 62, Len(b) - 32, Len(b) - 31, Len(b)}
ByteValues == {0, 6, 7, 64, 128, 192, 255}
ManyPairs == {31, 32}
RECURSIVE Repeat(_, _)
Repeat(chunk, m) == IF m = 0 THEN <<>> ELSE chunk \o Repeat(chunk, m - 1)
Corruptions(b) ==
    {SubSeq(b, 1, Len(b) - 1), b \o <<0>>, to_compressed(1) \o b}
        \cup {SubSeq(b, 1, m) : m \in CutLengths}
        \cup (IF Len(b) >= 48 + 2 * 32
              THEN {SubSeq(b, 49, Len(b)), Zeros(48) \o SubSeq(b, 49, Len(b))}
              ELSE {})
        \cup {[b EXCEPT ![p] = v] :
                 p \in BytePositions(b) \cap (1 .. Len(b)), v \in ByteValues}
        \cup {Repeat(to_compressed(1), 2 * m) \o SubSeq(b, Len(b) - 63, Len(b)) :
                 m \in ManyPairs}

NoScalars == Scalars3("none", <<>>, <<>>, <<>>, <<>>, <<>>, <<>>)
Tampering(what, j, proof) == [what |-> what, j |-> j, proof |-> proof]
NotTampered == Tampering("none", 0, NoProof)

-----------------------------------------------------------------------------
(* The state machine: one action per call.                                 *)

Idle ==
    /\ oracle = <<>>
    /\ created = NoCall
    /\ verified = NoCall
    /\ parsed = NotParsed
    /\ pverified = NoCall
    /\ twisted = NoCall
    /\ tampered = NotTampered
    /\ tverified = NoCall
    /\ vscalars = NoScalars
    /\ fverified = NoCall
    /\ product = <<>>

Init ==
    /\ inp \in Inputs
    /\ buf = <<>>
    /\ forged = NoProof
    /\ vn = 0
    /\ Idle

\* proof = InnerProductProof::create(&mut transcript, &Q, &g, &h, G, H, a, b)
Create ==
    /\ created = NoCall
    /\ \E r \in Calls(LAMBDA fresh :
                create(Transcript0, inp.Q, inp.g, inp.h, inp.G, inp.H,
                       inp.a, inp.b, oracle, fresh),
                oracle, RoundsOf(Len(inp.G))) :
          /\ created' = r
          /\ oracle' = Sampled(oracle, r.qs)
    /\ UNCHANGED <<inp, verified, buf, parsed, pverified, twisted, tampered,
                   tverified, forged, vn, vscalars, fverified,
                   product>>

\* create on the pre-twisted bases G'_i = g_i G_i, H'_i = h_i H_i with unit
\* factors, from the same initial transcript
CreateTwisted ==
    /\ twisted = NoCall
    /\ \E r \in Calls(LAMBDA fresh :
                create(Transcript0, inp.Q, Ones(Len(inp.g)), Ones(Len(inp.h)),
                       Twist(inp.g, inp.G), Twist(inp.h, inp.H),
                       inp.a, inp.b, oracle, fresh),
                oracle, RoundsOf(Len(inp.G))) :
          /\ twisted' = r
          /\ oracle' = Sampled(oracle, r.qs)
    /\ UNCHANGED <<inp, created, verified, buf, parsed, pverified, tampered,
                   tverified, forged, vn, vscalars, fverified,
                   product>>

\* proof.verify(n, &mut transcript, g, h, &P, &Q, &G, &H) on a fresh
\* transcript in the prover's initial state
Verify ==
    /\ created.res = "Ok"
    /\ verified = NoCall
    /\ \E r \in Calls(LAMBDA fresh :
                verify(created.proof, Len(inp.G), Transcript0, inp.g, inp.h,
                       Commitment(inp), inp.Q, inp.G, inp.H, oracle, fresh),
                oracle, RoundsIn(created.proof)) :
          /\ verified' = r
          /\ oracle' = Sampled(oracle, r.qs)
    /\ UNCHANGED <<inp, created, buf, parsed, pverified, twisted, tampered,
                   tverified, forged, vn, vscalars, fverified,
                   product>>

\* bytes = proof.to_bytes()
ToBytes ==
    /\ created.res = "Ok"
    /\ buf = <<>>
    /\ buf' = to_bytes(created.proof)
    /\ UNCHANGED <<inp, oracle, created, verified, parsed, pverified, twisted,
                   tampered, tverified, forged, vn, vscalars, fverified,
                   product>>

\* InnerProductProof::from_bytes(bytes)
FromBytes ==
    /\ buf # <<>>
    /\ parsed = NotParsed
    /\ parsed' = from_bytes(buf)
    /\ UNCHANGED <<inp, oracle, created, verified, buf, pverified, twisted,
                   tampered, tverified, forged, vn, vscalars, fverified,
                   product>>

\* verify on the proof parsed back, again on a fresh transcript
VerifyParsed ==
    /\ parsed.res = "Ok"
    /\ pverified = NoCall
    /\ \E r \in Calls(LAMBDA fresh :
                verify(parsed.proof, Len(inp.G), Transcript0, inp.g, inp.h,
                       Commitment(inp), inp.Q, inp.G, inp.H, oracle, fresh),
                oracle, RoundsIn(parsed.proof)) :
          /\ pverified' = r
          /\ oracle' = Sampled(oracle, r.qs)
    /\ UNCHANGED <<inp, created, verified, buf, parsed, twisted, tampered,
                   tverified, forged, vn, vscalars, fverified,
                   product>>

Next == Create \/ Verify \/ ToBytes \/ FromBytes \/ VerifyParsed

Spec == Init /\ [][Next]_vars

(* Factor equivalence: the two calls of create. *)

NextTwist == Create \/ CreateTwisted

SpecTwist == Init /\ [][NextTwist]_vars

(* Tampering: one component of an accepted proof is replaced. *)

InitTamper ==
    /\ inp \in TamperInputs
    /\ buf = <<>>
    /\ forged = NoProof
    /\ vn = 0
    /\ Idle

\* Someone replaces L_j, R_j, a or b of a proof verify accepted by another
\* value.
Tamper ==
    /\ verified.res = "Ok"
    /\ tampered = NotTampered
    /\ LET pf == created.proof
       IN  \/ \E j \in 1 .. Len(pf.L_vec) : \E x \in Points \ {pf.L_vec[j]} :
                tampered' = Tampering("L", j, [pf EXCEPT !.L_vec[j] = x])
           \/ \E j \in 1 .. Len(pf.R_vec) : \E x \in Points \ {pf.R_vec[j]} :
                tampered' = Tampering("R", j, [pf EXCEPT !.R_vec[j] = x])
           \/ \E x \in Scalars \ {pf.a} :
                tampered' = Tampering("a", 0, [pf EXCEPT !.a = x])
           \/ \E x \in Scalars \ {pf.b} :
                tampered' = Tampering("b", 0, [pf EXCEPT !.b = x])
    /\ UNCHANGED <<inp, oracle, created, verified, buf, parsed, pverified,
                   twisted, tverified, forged, vn, vscalars, fverified,
                   product>>

\* verify on the tampered proof, same n, P, Q, G, H, factors and initial
\* transcript
VerifyTampered ==
    /\ tampered # NotTampered
    /\ tverified = NoCall
    /\ \E r \in Calls(LAMBDA fresh :
                verify(tampered.proof, Len(inp.G), Transcript0, inp.g, inp.h,
                       Commitment(inp), inp.Q, inp.G, inp.H, oracle, fresh),
                oracle, RoundsIn(tampered.proof)) :
          /\ tverified' = r
          /\ oracle' = Sampled(oracle, r.qs)
    /\ UNCHANGED <<inp, created, verified, buf, parsed, pverified, twisted,
                   tampered, forged, vn, vscalars, fverified,
                   product>>

NextTamper == Create \/ Verify \/ Tamper \/ VerifyTampered

SpecTamper == InitTamper /\ [][NextTamper]_vars

(* The verifier on forged proofs. *)

InitScalars ==
    /\ inp = NoInputs
    /\ buf = <<>>
    /\ forged \in Forged \cup ForgedLong
    /\ vn \in VLengths
    /\ Idle

\* forged.verification_scalars(vn, &mut transcript)
VerificationScalars ==
    /\ vscalars = NoScalars
    /\ \E r \in Calls(LAMBDA fresh :
                verification_scalars(forged, vn, Transcript0, oracle, fresh),
                oracle, RoundsIn(forged)) :
          /\ vscalars' = r
          /\ oracle' = Sampled(oracle, r.qs)
    /\ UNCHANGED <<inp, created, verified, buf, parsed, pverified, twisted,
                   tampered, tverified, forged, vn, fverified,
                   product>>

\* forged.verify(vn, &mut transcript, g, h, &P, &Q, &G, &H) for some public
\* parameters of length vn
VerifyForged ==
    /\ fverified = NoCall
    /\ \E P \in Points, Q \in BasesQ, sh \in SeedsHf, sG \in SeedsG :
        \E r \in Calls(LAMBDA fresh :
                verify(forged, vn, Transcript0, Ones(vn), VecOf(vn, sh), P, Q,
                       VecOf(vn, sG), VecOf(vn, <<1, 2>>), oracle, fresh),
                oracle, RoundsIn(forged)) :
          /\ fverified' = r
          /\ oracle' = Sampled(oracle, r.qs)
    /\ UNCHANGED <<inp, created, verified, buf, parsed, pverified, twisted,
                   tampered, tverified, forged, vn, vscalars,
                   product>>

NextScalars == VerificationScalars \/ VerifyForged

SpecScalars == InitScalars /\ [][NextScalars]_vars

(* The parser on the slices of a third party. *)

InitParse ==
    /\ inp = NoInputs
    /\ buf = <<>>
    /\ forged \in Forged
    /\ vn = 0
    /\ Idle

\* forged.to_bytes()
ToBytesForged ==
    /\ buf = <<>>
    /\ parsed = NotParsed
    /\ buf' = to_bytes(forged)
    /\ UNCHANGED <<inp, oracle, created, verified, parsed, pverified, twisted,
                   tampered, tverified, forged, vn, vscalars, fverified,
                   product>>

\* The serialized proof is altered on its way.
Corrupt ==
    /\ buf = to_bytes(forged)
    /\ parsed = NotParsed
    /\ \E c \in Corruptions(buf) \ {buf} : buf' = c
    /\ UNCHANGED <<inp, oracle, created, verified, parsed, pverified, twisted,
                   tampered, tverified, forged, vn, vscalars, fverified,
                   product>>

\* InnerProductProof::from_bytes(bytes) on whatever slice there is, the
\* empty one included
FromBytesAny ==
    /\ parsed = NotParsed
    /\ parsed' = from_bytes(buf)
    /\ UNCHANGED <<inp, oracle, created, verified, buf, pverified, twisted,
                   tampered, tverified, forged, vn, vscalars, fverified,
                   product>>

NextParse == ToBytesForged \/ Corrupt \/ FromBytesAny

SpecParse == InitParse /\ [][NextParse]_vars

(* The caller who may break the contract. *)

InitContract ==
    /\ inp \in AnyInputs
    /\ buf = <<>>
    /\ forged = NoProof
    /\ vn = 0
    /\ Idle

\* inner_product(&a, &b)
InnerProduct ==
    /\ product = <<>>
    /\ product' = <<inner_product(inp.a, inp.b)>>
    /\ UNCHANGED <<inp, oracle, created, verified, buf, parsed, pverified,
                   twisted, tampered, tverified, forged, vn, vscalars,
                   fverified>>

NextContract == Create \/ InnerProduct

SpecContract == InitContract /\ [][NextContract]_vars

(* The prover and the verifier's replay on the prover's proof. *)

\* proof.verification_scalars(n, &mut transcript) on create's proof, on a
\* fresh transcript in the same initial state
VerificationScalarsCreated ==
    /\ created.res = "Ok"
    /\ vscalars = NoScalars
    /\ \E r \in Calls(LAMBDA fresh :
                verification_scalars(created.proof, Len(inp.G), Transcript0,
                                     oracle, fresh),
                oracle, RoundsIn(created.proof)) :
          /\ vscalars' = r
          /\ oracle' = Sampled(oracle, r.qs)
    /\ UNCHANGED <<inp, created, verified, buf, parsed, pverified, twisted,
                   tampered, tverified, forged, vn, fverified, product>>

NextLockStep == Create \/ VerificationScalarsCreated

SpecLockStep == Init /\ [][NextLockStep]_vars

(* The prover's and the verifier's errors. *)

InitErrors ==
    /\ inp \in FewInputs
    /\ buf = <<>>
    /\ forged \in ForgedFew
    /\ vn = Pow2(Len(forged.L_vec))
    /\ Idle

NextErrors == Create \/ VerificationScalars

SpecErrors == InitErrors /\ [][NextErrors]_vars

-----------------------------------------------------------------------------
(* Properties.                                                             *)

HasIdentity(proof) ==
    \/ \E j \in 1 .. Len(proof.L_vec) : proof.L_vec[j] = Identity
    \/ \E j \in 1 .. Len(proof.R_vec) : proof.R_vec[j] = Identity

\* log2 of a power of two
Log2(n) == CHOOSE k \in 0 .. 63 : Pow2(k) = n

\* C1 as stated (completeness): whenever create returned a proof for the
\* caller's a, b, G, H, Q, g, h of a power-of-two length and P is the
\* commitment computed from them, verify on that proof, on a fresh
\* transcript in the same initial state, returns Ok.
C1_CompletenessAsStated ==
    (ValidInputs(inp) /\ verified # NoCall) => verified.res = "Ok"

\* C1 amended: verify on create's proof returns Ok when none of the proof's
\* L_j, R_j is the identity point, and VerificationError when one is.
C1_Completeness ==
    (ValidInputs(inp) /\ verified # NoCall) =>
        /\ ~HasIdentity(created.proof) => verified.res = "Ok"
        /\ HasIdentity(created.proof) => verified.res = "VerificationError"

\* C1's case: a proof of two rounds without identity points, made from
\* nonzero a and b under factors that are not all one, was verified.
C1_Witness ==
    /\ verified # NoCall
    /\ Len(created.proof.L_vec) = 2
    /\ ~HasIdentity(created.proof)
    /\ inp.a = VecOf(4, <<1, 1>>) /\ inp.b = VecOf(4, <<2, 3>>)
    /\ inp.h = VecOf(4, <<0, 3>>) /\ inp.g = VecOf(4, <<2, 1>>)

\* C2 (codec round trip): from_bytes on to_bytes of a proof made by create
\* succeeds and returns that proof (same L, R, a, b), and when verify
\* accepted the proof it accepts the proof parsed back.
C2_RoundTrip ==
    /\ parsed # NotParsed =>
            parsed.res = "Ok" /\ parsed.proof = created.proof
    /\ (verified.res = "Ok" /\ pverified # NoCall) => pverified.res = "Ok"

\* C2's case: a two-round proof with a # b that verify accepted was written,
\* parsed back and accepted again.
C2_Witness ==
    /\ verified.res = "Ok" /\ pverified.res = "Ok"
    /\ parsed.res = "Ok"
    /\ Len(parsed.proof.L_vec) = 2
    /\ parsed.proof.a # parsed.proof.b

\* C7 (factor equivalence): create with the factors g, h and create on the
\* pre-twisted bases with unit factors, from the same initial transcript,
\* return the same: the same proof (L, R, a, b), or the same error.
C7_FactorEquivalence ==
    (ValidInputs(inp) /\ created # NoCall /\ twisted # NoCall) =>
        /\ created.res = twisted.res
        /\ created.proof = twisted.proof

\* C7's case: both calls returned a two-round proof, for factors g and h
\* that are not all one.
C7_Witness ==
    /\ created.res = "Ok" /\ twisted.res = "Ok"
    /\ Len(created.proof.L_vec) = 2
    /\ inp.g = VecOf(4, <<2, 1>>) /\ inp.h = VecOf(4, <<0, 3>>)
    /\ inp.a = VecOf(4, <<1, 1>>) /\ inp.b = VecOf(4, <<2, 3>>)
    /\ inp.G = VecOf(4, <<3, 1>>)

AcceptedS ==
    verification_scalars(created.proof, Len(inp.G), Transcript0, oracle,
                         NoFresh(RoundsIn(created.proof))).s

\* The point a multiplies in verify's equation, b Q + sum_i s_i g_i G_i, and
\* the point b multiplies, a Q + sum_i s_{n-1-i} h_i H_i.
CoefficientOfA ==
    PAdd(PMul(inp.Q, created.proof.b),
         msm([i \in 1 .. Len(inp.G) |-> SMul(AcceptedS[i], inp.g[i])], inp.G))
CoefficientOfB ==
    PAdd(PMul(inp.Q, created.proof.a),
         msm([i \in 1 .. Len(inp.H) |->
                 SMul(AcceptedS[Len(inp.H) + 1 - i], inp.h[i])], inp.H))

\* The challenges replayed for the tampered proof have the values replayed
\* for the accepted one.
SameChallenges ==
    \A i \in 1 .. Len(tverified.qs) : tverified.qs[i][2] = verified.qs[i][2]

\* C3 as stated (tamper rejection): a proof verify accepted, with exactly
\* one of its components (some L_j, some R_j, a or b) replaced by a different
\* value, makes verify return VerificationError for the same n, P, Q, G, H,
\* factors and initial transcript.
C3_TamperRejectedAsStated ==
    (verified.res = "Ok" /\ tverified # NoCall) =>
        tverified.res = "VerificationError"

\* C3 amended: with a replaced, verify returns VerificationError unless the
\* point a multiplies, b Q + sum_i s_i g_i G_i, is the identity, and then it
\* returns Ok; likewise with b replaced and a Q + sum_i s_{n-1-i} h_i H_i;
\* with an L_j or R_j replaced, verify returns VerificationError when the
\* new point is the identity or the replayed challenges keep their values.
C3_TamperRejected ==
    (verified.res = "Ok" /\ tverified # NoCall) =>
        /\ tampered.what = "a" =>
                tverified.res = (IF CoefficientOfA = Identity THEN "Ok"
                                 ELSE "VerificationError")
        /\ tampered.what = "b" =>
                tverified.res = (IF CoefficientOfB = Identity THEN "Ok"
                                 ELSE "VerificationError")
        /\ (tampered.what \in {"L", "R"}
                /\ (HasIdentity(tampered.proof) \/ SameChallenges)) =>
                tverified.res = "VerificationError"

\* C3's case: a of an accepted one-round proof was negated and verify
\* returned VerificationError.
C3_Witness ==
    /\ verified.res = "Ok"
    /\ Len(created.proof.L_vec) = 1
    /\ tampered.what = "a"
    /\ tampered.proof.a = SNeg(created.proof.a)
    /\ tverified.res = "VerificationError"

\* C5 (size mismatch): whenever the proof's k = |L| is at least 32 or the
\* supplied n differs from 2^k, verification_scalars returns
\* VerificationError, and so does verify, whatever the other arguments.
C5_SizeMismatch ==
    LET k == Len(forged.L_vec)
    IN  (IF k >= 32 THEN TRUE ELSE vn # 2 ^ k) =>
            /\ vscalars # NoScalars => vscalars.res = "VerificationError"
            /\ fverified # NoCall => fverified.res = "VerificationError"

\* C5's case: n = 16 with a proof of k = 6 was rejected by both calls.
C5_Witness ==
    /\ Len(forged.L_vec) = 6
    /\ vn = 16
    /\ vscalars.res = "VerificationError"
    /\ fverified.res = "VerificationError"

\* A squeezed challenge among the queries qs of a call is zero.
ZeroChallenge(qs) == \E i \in 1 .. Len(qs) : qs[i][2] = 0

\* C6 as stated (error kinds): create returns an error only when a squeezed
\* challenge is zero, that error is FormatError, and otherwise it returns a
\* proof; verification_scalars returns VerificationError when some L_j or
\* R_j is the identity, and FormatError when some replayed challenge is zero.
C6_ErrorKindsAsStated ==
    /\ created # NoCall =>
            /\ created.res \in {"Ok", "FormatError"}
            /\ created.res = "FormatError" <=> ZeroChallenge(created.qs)
            /\ created.res = "Ok" => created.proof # NoProof
    /\ vscalars # NoScalars =>
            /\ HasIdentity(forged) => vscalars.res = "VerificationError"
            /\ ZeroChallenge(vscalars.qs) => vscalars.res = "FormatError"

\* C6 amended: as stated for create; verification_scalars returns
\* VerificationError when some L_j or R_j is the identity, whatever the
\* challenges replayed before it, and FormatError when no L_j or R_j is the
\* identity and some replayed challenge is zero.
C6_ErrorKinds ==
    /\ created # NoCall =>
            /\ created.res \in {"Ok", "FormatError"}
            /\ created.res = "FormatError" <=> ZeroChallenge(created.qs)
            /\ created.res = "Ok" => created.proof # NoProof
    /\ vscalars # NoScalars =>
            /\ HasIdentity(forged) => vscalars.res = "VerificationError"
            /\ (~HasIdentity(forged) /\ ZeroChallenge(vscalars.qs)) =>
                    vscalars.res = "FormatError"

\* C6's case: create met a zero challenge and returned FormatError, and
\* verification_scalars replayed a zero challenge and then met an identity
\* point.
C6_Witness ==
    /\ created.res = "FormatError"
    /\ ZeroChallenge(vscalars.qs)
    /\ HasIdentity(forged)
    /\ vscalars.res = "VerificationError"

\* Bit m of i, and the inverse of a nonzero scalar.
Bit(i, m) == (i \div (2 ^ m)) % 2
Inverse(x) == CHOOSE y \in Scalars : (x * y) % ScalarOrder = 1

\* The product over the first j challenges of u, each taken as it is when
\* its bit of i is 1 (bit k-1 for the first challenge) and inverted otherwise.
RECURSIVE ClosedForm(_, _, _)
ClosedForm(u, i, j) ==
    IF j = 0 THEN 1
    ELSE (ClosedForm(u, i, j - 1)
            * (IF Bit(i, Len(u) - j) = 1 THEN u[j] ELSE Inverse(u[j])))
                % ScalarOrder

\* floor(log2 i) for i >= 1
FloorLog2(i) == CHOOSE m \in 0 .. 31 : 2 ^ m <= i /\ i < 2 ^ (m + 1)

\* C8 (closed form of s): when verification_scalars succeeds with the
\* challenges u_0..u_{k-1}, s has n entries, s[0] is the product of all
\* u_j^-1, s[i] = s[i - 2^floor(log2 i)] * u_sq[(k-1) - floor(log2 i)], every
\* s[i] is the product over j of u_j if bit k-1-j of i is 1 and of u_j^-1
\* otherwise, and u_sq[j] = u_j^2, u_inv_sq[j] = u_j^-2.
C8_ClosedForm ==
    vscalars.res = "Ok" =>
        LET u == vscalars.challenges
            k == Len(u)
            s == vscalars.s
        IN  /\ k = Len(forged.L_vec)
            /\ Len(s) = vn
            /\ \A i \in 0 .. vn - 1 : s[i + 1] = ClosedForm(u, i, k)
            /\ \A i \in 1 .. vn - 1 :
                    s[i + 1] = (s[i - 2 ^ FloorLog2(i) + 1]
                                 * vscalars.u_sq[(k - 1) - FloorLog2(i) + 1])
                                    % ScalarOrder
            /\ Len(vscalars.u_sq) = k /\ Len(vscalars.u_inv_sq) = k
            /\ \A j \in 1 .. k :
                    /\ vscalars.u_sq[j] = (u[j] * u[j]) % ScalarOrder
                    /\ vscalars.u_inv_sq[j] =
                            (Inverse(u[j]) * Inverse(u[j])) % ScalarOrder

\* C8's case: verification_scalars succeeded for n = 4 with two challenges
\* whose squares differ from each other and from their inverses.
C8_Witness ==
    /\ vscalars.res = "Ok"
    /\ vn = 4
    /\ vscalars.u_sq[1] # vscalars.u_sq[2]
    /\ vscalars.u_sq[1] # vscalars.u_inv_sq[1]

\* C9 (inverse symmetry): for every successful verification_scalars result,
\* s[i] * s[n-1-i] = 1 for all i < n, so s in reverse order, as verify uses it
\* for the H branch, holds the inverse of s[i] at i.
C9_InverseSymmetry ==
    vscalars.res = "Ok" =>
        LET s == vscalars.s
        IN  /\ \A i \in 0 .. vn - 1 :
                    (s[i + 1] * s[(vn - 1 - i) + 1]) % ScalarOrder = 1
            /\ \A i \in 1 .. vn : Reverse(s)[i] = Inverse(s[i])

\* C9's case: verification_scalars succeeded for n = 4 and s is not its own
\* reverse.
C9_Witness ==
    /\ vscalars.res = "Ok"
    /\ vn = 4
    /\ vscalars.s[1] # vscalars.s[4]
    /\ vscalars.s[2] # vscalars.s[3]

\* The point count of a slice of length len, and the slices from_bytes is
\* to reject.
PointCount(len) == (len - 64) \div 48
Malformed(slice) ==
    \/ Len(slice) < 64
    \/ (Len(slice) - 64) % 48 # 0
    \/ PointCount(Len(slice)) % 2 = 1
    \/ PointCount(Len(slice)) \div 2 >= 32
    \/ \E p \in 0 .. PointCount(Len(slice)) - 1 :
            from_compressed(SubSeq(slice, 48 * p + 1, 48 * p + 48)) = <<>>
    \/ from_bytes_le(SubSeq(slice, Len(slice) - 63, Len(slice) - 32)) = <<>>
    \/ from_bytes_le(SubSeq(slice, Len(slice) - 31, Len(slice))) = <<>>

\* C4 (malformed input): from_bytes returns FormatError, and no proof, for
\* every slice shorter than 64 bytes, or whose length less 64 is not a
\* multiple of 48, or whose point count is odd, or whose k is at least 32, or
\* that holds a point failing decompression or a non-canonical scalar; so
\* for a serialized proof cut by one byte.
C4_MalformedRejected ==
    (parsed # NotParsed /\ Malformed(buf)) =>
        /\ parsed.res = "FormatError"
        /\ parsed.proof = NoProof

\* C4's case: a serialized two-round proof, cut by one byte, was rejected.
C4_Witness ==
    /\ Len(forged.L_vec) = 2
    /\ buf = SubSeq(to_bytes(forged), 1, Len(to_bytes(forged)) - 1)
    /\ parsed.res = "FormatError"

\* The lengths of the caller's six vectors, and a power of two written out.
InputLengths ==
    {Len(inp.G), Len(inp.H), Len(inp.a), Len(inp.b), Len(inp.g), Len(inp.h)}
PowerOfTwo(n) == n \in {2 ^ k : k \in 0 .. 30}

RECURSIVE RoundOps(_, _, _)
RoundOps(proof, n, j) ==
    IF j = 0 THEN <<<<"dom-sep", "innerproduct", n>>>>
    ELSE RoundOps(proof, n, j - 1)
            \o << <<"append", "L", proof.L_vec[j]>>,
                  <<"append", "R", proof.R_vec[j]>>,
                  <<"challenge", "u", 0>> >>

\* The challenges the verifier replayed are the prover's, in order.
SameReplay ==
    \A j \in 1 .. Len(vscalars.challenges) :
        vscalars.challenges[j] = created.qs[j][2]

\* C12 as stated (lock-step): on a proof of create for length n, create and
\* verification_scalars apply the same transcript operations, the domain
\* separator and per round L, R and the challenge; the j-th challenge
\* replayed is the j-th the prover used and both transcripts end equal.
C12_LockStepAsStated ==
    (created.res = "Ok" /\ vscalars # NoScalars) =>
        LET k == Len(created.proof.L_vec)
            ops == RoundOps(created.proof, Len(inp.G), k)
        IN  /\ created.tr = ops
            /\ vscalars.tr = ops
            /\ Len(created.qs) = k
            /\ Len(vscalars.challenges) = k
            /\ SameReplay

\* C12 amended: create applies those operations; verification_scalars
\* applies the same ones, replays the same challenges and ends in the same
\* transcript when no L_j or R_j of the proof is the identity; when one is,
\* it returns VerificationError having applied only the operations before
\* that point, with the challenges replayed until then the prover's.
C12_LockStep ==
    (created.res = "Ok" /\ vscalars # NoScalars) =>
        LET k == Len(created.proof.L_vec)
            ops == RoundOps(created.proof, Len(inp.G), k)
        IN  /\ created.tr = ops
            /\ Len(created.qs) = k
            /\ SameReplay
            /\ ~HasIdentity(created.proof) =>
                    /\ vscalars.tr = ops
                    /\ Len(vscalars.challenges) = k
            /\ HasIdentity(created.proof) =>
                    /\ vscalars.res = "VerificationError"
                    /\ Len(vscalars.tr) < Len(ops)
                    /\ vscalars.tr = SubSeq(ops, 1, Len(vscalars.tr))
                    /\ \A i \in 1 .. Len(vscalars.tr) :
                            vscalars.tr[i][3] # Identity \/ vscalars.tr[i][1] # "append"
                    /\ ops[Len(vscalars.tr) + 1][1] = "append"
                    /\ ops[Len(vscalars.tr) + 1][3] = Identity

\* C12's case: a two-round proof without identity points was replayed and
\* both transcripts ended in the same state.
C12_Witness ==
    /\ created.res = "Ok"
    /\ Len(created.proof.L_vec) = 2
    /\ ~HasIdentity(created.proof)
    /\ vscalars.res = "Ok"
    /\ vscalars.tr = created.tr
    /\ Len(vscalars.challenges) = 2
====
